---- MODULE Spec2Model ----
(***************************************************************************)
(* A model of tmpssh.py: the assembly of an authorized_keys file from      *)
(* --file, --url and --github sources through an on-disk key cache, the    *)
(* generated sshd configuration, the persistent host key and the final     *)
(* exec of sshd.  Text (paths, URLs, file contents, the configuration) is  *)
(* a sequence of tokens; "\n" and "\t" are tokens of their own, so that    *)
(* formatting a path into the configuration is a real concatenation.       *)
(***************************************************************************)
EXTENDS Integers, Sequences, FiniteSets, TLC

\* ---------------------------------------------------------------- bounds
MaxArgs == 3
MaxRuns == 2
MaxCount == 2
NumProcs == 2

\* ------------------------------------------------------------- constants
NL == "\n"
TAB == "\t"

\* A path that names no file, a directory that does not exist, no host key.
NoFile == <<"ENOENT">>
NoDir == -1
NoKey == 0

Mode700 == 448
DefaultDirMode == 511
FetchUmask == 18
UserUmasks == {18, 63}

\* pwd.getpwuid(os.getuid())[0]
get_username == "me"

\* --------------------------------------------------- the run's environment
FileA == <<"/home/me/a.pub">>
FileInj == <<"/tmp/k", NL, "AllowUsers", TAB, "mallory">>
Url1 == <<"https://example.org/keys">>
Alice == <<"alice">>

GITHUB_KEYS_ENDPOINT(username) == <<"https://github.com/">> \o username \o <<".keys">>

UrlAlice == GITHUB_KEYS_ENDPOINT(Alice)
AllUrls == {Url1, UrlAlice}

\* What the local files hold; FileInj names no file.
FileBytes(p) == IF p = FileA THEN <<"keyA", NL>> ELSE NoFile

\* What ~/.ssh/authorized_keys holds when it exists.
HomeBytes == <<"keyHome", NL>>

\* What a successful GET of the URL returns.
do_get(url) == IF url = Url1 THEN <<"key1", NL, "key2", NL>> ELSE <<"keyAlice", NL>>

\* One command-line flag with its value, and the command lines of a run.
FlagArgs == [flag : {"file"}, val : {FileA, FileInj}]
              \cup [flag : {"url"}, val : AllUrls]
              \cup [flag : {"github"}, val : {Alice}]
CmdLines == UNION {[1..n -> FlagArgs] : n \in 0..MaxArgs}

\* ------------------------------------------------------------------ paths
HomeAuthorizedKeys == <<"/home/me/.ssh/authorized_keys">>
TmpPath == <<"/tmp/tmpmerged">>
HostKeyPath == <<"/home/me/.local/state/tmpssh/host_ed25519_key">>
CacheDirPath == "/home/me/.local/state/tmpssh/pubkeys/"

\* hashlib.sha3_256(url.encode()).hexdigest(): a hex string, one per URL.
HexDigest(url) == IF url = Url1 THEN "3f1e" ELSE "a11c"

CachePath(url) == <<CacheDirPath, HexDigest(url)>>

\* ------------------------------------------------------------- filesystem
RECURSIVE AndNot(_, _, _)
\* mode & ~mask on w bits: the mode a directory is created with.
AndNot(mode, mask, w) ==
  IF w = 0 THEN 0
  ELSE (IF mode % 2 = 1 /\ mask % 2 = 0 THEN 1 ELSE 0)
         + 2 * AndNot(mode \div 2, mask \div 2, w - 1)

\* Path.mkdir(mode, exist_ok=True, parents=True) of "tmpssh" or of
\* "tmpssh/pubkeys": an existing directory is left as it is; a missing
\* parent is created with the default mode, not with `mode`.
mkdir(dm, d, mode, mask) ==
  IF dm[d] # NoDir THEN dm
  ELSE IF d = "pubkeys" /\ dm["tmpssh"] = NoDir
       THEN [dm EXCEPT !["tmpssh"] = AndNot(DefaultDirMode, mask, 9),
                       !["pubkeys"] = AndNot(mode, mask, 9)]
       ELSE [dm EXCEPT ![d] = AndNot(mode, mask, 9)]

\* file.read_bytes() of a source path, given the cache's files.
read_bytes(p, files) ==
  IF \E u \in AllUrls : p = CachePath(u)
  THEN files[CHOOSE u \in AllUrls : p = CachePath(u)]
  ELSE FileBytes(p)

\* ------------------------------------------------------- argument parsing
\* argparse action="append": the values of one flag, in the order given.
Values(cl, f) ==
  LET s == SelectSeq(cl, LAMBDA it : it.flag = f)
  IN [k \in 1..Len(s) |-> s[k].val]

parse_args(cl) ==
  [file |-> Values(cl, "file"), url |-> Values(cl, "url"),
   github |-> Values(cl, "github")]

\* lines 55-57: the explicit URLs, then one URL per GitHub user.
UrlsOf(pa) ==
  pa.url \o [k \in 1..Len(pa.github) |-> GITHUB_KEYS_ENDPOINT(pa.github[k])]

\* ------------------------------------------------------------------ state
VARIABLES
  pc,            \* where the run is
  runs,          \* runs started so far
  cmdline,       \* the flags of this run, in the order given
  parsed_args,   \* parser.parse_args()
  umask,         \* the process's umask
  prev_mask,     \* os.umask()'s return value
  urls,          \* make_authorized_keys: urls
  i,             \* index of the url the loop is at
  sources,       \* make_authorized_keys: sources
  authorized_keys_path,
  tmpBytes,      \* the merged temporary file
  sshd_config,   \* the rendered configuration
  configWritten, \* the configuration file has been written
  host_key,      \* ensure_host_key()'s return value
  launched,      \* os.execv replaced the process
  err,           \* the error that ended the run
  exitCode,      \* the exit status of a failed run
  steps,         \* the steps of main() completed in this run
  dirMode,       \* mode of <state>/tmpssh and <state>/tmpssh/pubkeys
  cache,         \* the files of the cache directory, by URL
  hostKey,       \* the host key file: NoKey, or the run that generated the key
  homeBytes,     \* ~/.ssh/authorized_keys
  gets,          \* GETs that returned a body, by URL
  resolves,      \* completed resolutions, by URL, counted up to MaxCount
  keygenRuns,    \* ssh-keygen invocations
  \* Concurrent invocations that resolve one URL through one cache file:
  rpc,           \* where each invocation is
  rfile,         \* the cache file of the URL
  rcontent,      \* get_and_save_url: content, per invocation
  roff,          \* the offset of each invocation's open file
  rused          \* the bytes each invocation read from its key source

runVars == <<cmdline, parsed_args, umask, prev_mask, urls, i, sources,
             authorized_keys_path, tmpBytes, sshd_config, configWritten,
             host_key, launched, err, exitCode, steps>>
fsVars == <<dirMode, cache, hostKey, homeBytes>>
histVars == <<gets, resolves, keygenRuns>>
mainVars == <<pc, runs, runVars, fsVars, histVars>>
raceVars == <<rpc, rfile, rcontent, roff, rused>>
vars == <<mainVars, raceVars>>

Procs == 1..NumProcs
NotYet == <<"NOTYET">>
RaceUrl == Url1

\* No concurrent invocations are running.
RaceIdle ==
  /\ rpc = [p \in Procs |-> "exists"]
  /\ rfile = NoFile
  /\ rcontent = [p \in Procs |-> <<>>]
  /\ roff = [p \in Procs |-> 0]
  /\ rused = [p \in Procs |-> NotYet]

\* A process that has not started: nothing parsed, nothing computed.
NoRun ==
  /\ cmdline = <<>>
  /\ parsed_args = parse_args(<<>>)
  /\ umask = FetchUmask
  /\ prev_mask = 0
  /\ urls = <<>>
  /\ i = 1
  /\ sources = <<>>
  /\ authorized_keys_path = <<>>
  /\ tmpBytes = NoFile
  /\ sshd_config = <<>>
  /\ configWritten = FALSE
  /\ host_key = <<>>
  /\ launched = FALSE
  /\ err = ""
  /\ exitCode = 0
  /\ steps = <<>>

MainInit ==
  /\ pc = "idle"
  /\ runs = 0
  /\ NoRun
  /\ dirMode = [d \in {"tmpssh", "pubkeys"} |-> NoDir]
  /\ cache = [u \in AllUrls |-> NoFile]
  /\ hostKey = NoKey
  /\ homeBytes = NoFile
  /\ gets = [u \in AllUrls |-> 0]
  /\ resolves = [u \in AllUrls |-> 0]
  /\ keygenRuns = 0

Init == MainInit /\ RaceIdle

\* ------------------------------------------------------------- operations
\* The cache is never consulted: every resolution fetches.
cache_miss_always(files, url) == TRUE

\* line 65: not cache_file_path.exists()
cache_miss(files, url) == files[url] = NoFile

\* get_and_save_url, after do_get returned: the cache file holds the body.
get_and_save_url(files, url) == [files EXCEPT ![url] = do_get(url)]

RECURSIVE merge_files_reversed(_, _)
\* The files are written last first.
merge_files_reversed(fileList, files) ==
  IF fileList = <<>> THEN <<>>
  ELSE merge_files_reversed(Tail(fileList), files) \o read_bytes(Head(fileList), files)

RECURSIVE merge_files(_, _)
\* merge_files: the bytes of every file, in the order of the list.
merge_files(fileList, files) ==
  IF fileList = <<>> THEN <<>>
  ELSE read_bytes(Head(fileList), files) \o merge_files(Tail(fileList), files)

\* The files of the list before the first one that cannot be read.
Readable(fileList, files) ==
  LET bad == {k \in 1..Len(fileList) : read_bytes(fileList[k], files) = NoFile}
  IN IF bad = {} THEN fileList
     ELSE SubSeq(fileList, 1, (CHOOSE k \in bad : \A j \in bad : k <= j) - 1)

\* The default file is taken to exist without looking.
default_exists_always(home) == TRUE

\* line 73: authorized_keys.exists()
default_exists(home) == home # NoFile

\* The host key is generated on every run.
host_key_missing_always(hk) == TRUE

\* line 100: not host_key.exists()
host_key_missing(hk) == hk = NoKey

generate_sshd_config(authorized_keys, user) ==
  <<NL, "AuthorizedKeysFile", TAB>> \o authorized_keys
    \o <<NL, "AllowUsers", TAB, user,
         NL, "PubkeyAuthentication", TAB, "yes",
         NL, "PasswordAuthentication", TAB, "no",
         NL, "PermitRootLogin", TAB, "no", NL>>

\* A single source is merged into a temporary file like several are.
select_keys_merge_one(srcs, home, files) ==
  IF Len(srcs) = 0
  THEN IF default_exists(home)
       THEN [err |-> "", code |-> 0, path |-> HomeAuthorizedKeys, tmp |-> NoFile]
       ELSE [err |-> "UsageError", code |-> 2, path |-> <<>>, tmp |-> NoFile]
  ELSE IF Readable(srcs, files) = srcs
  THEN [err |-> "", code |-> 0, path |-> TmpPath, tmp |-> merge_files(srcs, files)]
  ELSE [err |-> "FileNotFoundError", code |-> 1, path |-> <<>>,
        tmp |-> merge_files(Readable(srcs, files), files)]

\* make_authorized_keys, lines 70-80: the path returned and the bytes of the
\* temporary file it created (NoFile when it created none), or the error.
select_keys(srcs, home, files) ==
  IF Len(srcs) = 0
  THEN IF default_exists(home)
       THEN [err |-> "", code |-> 0, path |-> HomeAuthorizedKeys, tmp |-> NoFile]
       ELSE [err |-> "UsageError", code |-> 2, path |-> <<>>, tmp |-> NoFile]
  ELSE IF Len(srcs) = 1
  THEN [err |-> "", code |-> 0, path |-> srcs[1], tmp |-> NoFile]
  ELSE IF Readable(srcs, files) = srcs
  THEN [err |-> "", code |-> 0, path |-> TmpPath, tmp |-> merge_files(srcs, files)]
  ELSE [err |-> "FileNotFoundError", code |-> 1, path |-> <<>>,
        tmp |-> merge_files(Readable(srcs, files), files)]

\* The host key is ensured before the configuration is written.
after_hostkey_first(step) ==
  CASE step = "assemble" -> "hostkey"
    [] step = "hostkey" -> "config"
    [] step = "config" -> "launch"
    [] step = "launch" -> "execd"

\* main, lines 112-123: the step that follows each step.
after(step) ==
  CASE step = "assemble" -> "config"
    [] step = "config" -> "hostkey"
    [] step = "hostkey" -> "launch"
    [] step = "launch" -> "execd"

\* An uncaught exception (status 1) or parser.error (status 2) ends the run.
Fail(e, code) ==
  /\ pc' = "failed"
  /\ err' = e
  /\ exitCode' = code

\* main, lines 108-110, and make_authorized_keys up to the loop (53-61).
StartRun ==
  /\ UNCHANGED raceVars
  /\ pc = "idle"
  /\ runs < MaxRuns
  /\ runs' = runs + 1
  /\ \E cl \in CmdLines, m \in UserUmasks :
     \E home \in IF cl = <<>> THEN {NoFile, HomeBytes} ELSE {homeBytes} :
       LET pa == parse_args(cl)
           us == UrlsOf(pa)
       IN /\ cmdline' = cl
          /\ parsed_args' = pa
          /\ homeBytes' = home
          /\ sources' = pa.file
          /\ urls' = us
          /\ i' = 1
          /\ IF us # <<>>
             THEN /\ dirMode' = mkdir(dirMode, "pubkeys", Mode700, m)
                  /\ prev_mask' = m
                  /\ umask' = FetchUmask
                  /\ pc' = "resolve"
             ELSE /\ dirMode' = dirMode
                  /\ prev_mask' = 0
                  /\ umask' = m
                  /\ pc' = "assemble"
  /\ authorized_keys_path' = <<>>
  /\ tmpBytes' = NoFile
  /\ sshd_config' = <<>>
  /\ configWritten' = FALSE
  /\ host_key' = <<>>
  /\ launched' = FALSE
  /\ err' = ""
  /\ exitCode' = 0
  /\ steps' = <<>>
  /\ UNCHANGED <<cache, hostKey, histVars>>

\* One iteration of the loop of lines 62-67; line 68 after the last one.
ResolveUrl ==
  /\ UNCHANGED raceVars
  /\ pc = "resolve"
  /\ LET url == urls[i]
         Hit == /\ sources' = Append(sources, CachePath(url))
                /\ resolves' = [resolves EXCEPT ![url] = IF @ < MaxCount THEN @ + 1 ELSE @]
                /\ i' = i + 1
                /\ IF i = Len(urls)
                   THEN /\ umask' = prev_mask
                        /\ pc' = "assemble"
                   ELSE /\ umask' = umask
                        /\ pc' = pc
                /\ UNCHANGED <<err, exitCode>>
     IN IF cache_miss(cache, url)
        THEN \/ /\ cache' = get_and_save_url(cache, url)
                /\ gets' = [gets EXCEPT ![url] = @ + 1]
                /\ Hit
             \/ /\ Fail("FetchError", 1)
                /\ UNCHANGED <<cache, gets, sources, resolves, i, umask>>
        ELSE /\ Hit
             /\ UNCHANGED <<cache, gets>>
  /\ UNCHANGED <<runs, cmdline, parsed_args, prev_mask, urls,
                 authorized_keys_path, tmpBytes, sshd_config, configWritten,
                 host_key, launched, steps, dirMode, hostKey, homeBytes,
                 keygenRuns>>

\* make_authorized_keys, lines 70-80.
Assemble ==
  /\ UNCHANGED raceVars
  /\ pc = "assemble"
  /\ LET r == select_keys(sources, homeBytes, cache)
     IN /\ tmpBytes' = r.tmp
        /\ IF r.err = ""
           THEN /\ authorized_keys_path' = r.path
                /\ steps' = Append(steps, "keys")
                /\ pc' = after("assemble")
                /\ UNCHANGED <<err, exitCode>>
           ELSE /\ Fail(r.err, r.code)
                /\ UNCHANGED <<authorized_keys_path, steps>>
  /\ UNCHANGED <<runs, cmdline, parsed_args, umask, prev_mask, urls, i,
                 sources, sshd_config, configWritten, host_key, launched,
                 fsVars, gets, resolves, keygenRuns>>

\* main, lines 113-115.
WriteConfig ==
  /\ UNCHANGED raceVars
  /\ pc = "config"
  /\ sshd_config' = generate_sshd_config(authorized_keys_path, get_username)
  /\ configWritten' = TRUE
  /\ steps' = Append(steps, "config")
  /\ pc' = after("config")
  /\ UNCHANGED <<runs, cmdline, parsed_args, umask, prev_mask, urls, i,
                 sources, authorized_keys_path, tmpBytes, host_key, launched,
                 err, exitCode, fsVars, histVars>>

\* ensure_host_key, lines 97-102; ssh-keygen may fail.
EnsureHostKey ==
  /\ UNCHANGED raceVars
  /\ pc = "hostkey"
  /\ dirMode' = mkdir(dirMode, "tmpssh", Mode700, umask)
  /\ LET Return == /\ host_key' = HostKeyPath
                   /\ steps' = Append(steps, "hostkey")
                   /\ pc' = after("hostkey")
                   /\ UNCHANGED <<err, exitCode>>
     IN IF host_key_missing(hostKey)
        THEN /\ keygenRuns' = keygenRuns + 1
             /\ \/ /\ hostKey' = runs
                   /\ Return
                \/ /\ Fail("CalledProcessError", 1)
                   /\ UNCHANGED <<hostKey, host_key, steps>>
        ELSE /\ Return
             /\ UNCHANGED <<hostKey, keygenRuns>>
  /\ UNCHANGED <<runs, cmdline, parsed_args, umask, prev_mask, urls, i,
                 sources, authorized_keys_path, tmpBytes, sshd_config,
                 configWritten, launched, cache, homeBytes, gets, resolves>>

\* main, lines 117-123: shutil.which("sshd") finds sshd, or returns None
\* and os.execv(None, argv) raises TypeError.
Launch ==
  /\ UNCHANGED raceVars
  /\ pc = "launch"
  /\ \/ /\ launched' = TRUE
        /\ steps' = Append(steps, "exec")
        /\ pc' = after("launch")
        /\ UNCHANGED <<err, exitCode>>
     \/ /\ Fail("TypeError", 1)
        /\ UNCHANGED <<launched, steps>>
  /\ UNCHANGED <<runs, cmdline, parsed_args, umask, prev_mask, urls, i,
                 sources, authorized_keys_path, tmpBytes, sshd_config,
                 configWritten, host_key, fsVars, histVars>>

\* The process is gone, replaced by sshd or ended by the error; what it
\* held in memory is gone with it, the files stay.
Exit ==
  /\ UNCHANGED raceVars
  /\ pc \in {"execd", "failed"}
  /\ pc' = "idle"
  /\ cmdline' = <<>>
  /\ parsed_args' = parse_args(<<>>)
  /\ umask' = FetchUmask
  /\ prev_mask' = 0
  /\ urls' = <<>>
  /\ i' = 1
  /\ sources' = <<>>
  /\ authorized_keys_path' = <<>>
  /\ tmpBytes' = NoFile
  /\ sshd_config' = <<>>
  /\ configWritten' = FALSE
  /\ host_key' = <<>>
  /\ launched' = FALSE
  /\ err' = ""
  /\ exitCode' = 0
  /\ steps' = <<>>
  /\ UNCHANGED <<runs, fsVars, histVars>>

Next ==
  StartRun \/ ResolveUrl \/ Assemble \/ WriteConfig \/ EnsureHostKey \/ Launch \/ Exit

Spec == Init /\ [][Next]_vars

\* ------------------------------------------- concurrent invocations, 62-67
\* write(2) of one token at the offset of the open file: past the end of
\* the file the gap reads as zero bytes.
RECURSIVE WriteAt(_, _, _)
WriteAt(bytes, off, tok) ==
  IF off < Len(bytes) THEN [bytes EXCEPT ![off + 1] = tok]
  ELSE IF off = Len(bytes) THEN Append(bytes, tok)
  ELSE WriteAt(Append(bytes, "\\0"), off, tok)

\* line 65: cache_file_path.exists()
RExists(p) ==
  /\ UNCHANGED mainVars
  /\ rpc[p] = "exists"
  /\ rpc' = [rpc EXCEPT ![p] = IF rfile = NoFile THEN "get" ELSE "use"]
  /\ UNCHANGED <<rfile, rcontent, roff, rused>>

\* line 47: content = do_get(url), or the GET fails and ends the run.
RGet(p) ==
  /\ UNCHANGED mainVars
  /\ rpc[p] = "get"
  /\ \/ /\ rcontent' = [rcontent EXCEPT ![p] = do_get(RaceUrl)]
        /\ rpc' = [rpc EXCEPT ![p] = "open"]
     \/ /\ rpc' = [rpc EXCEPT ![p] = "failed"]
        /\ UNCHANGED rcontent
  /\ UNCHANGED <<rfile, roff, rused>>

\* line 48: file.open('w') creates the file or truncates it.
ROpen(p) ==
  /\ UNCHANGED mainVars
  /\ rpc[p] = "open"
  /\ rfile' = <<>>
  /\ roff' = [roff EXCEPT ![p] = 0]
  /\ rpc' = [rpc EXCEPT ![p] = "write"]
  /\ UNCHANGED <<rcontent, rused>>

\* line 49: fp.write(content) reaches the file a piece at a time; after the
\* last piece the file is closed and the path is a source (line 67).
RWrite(p) ==
  /\ UNCHANGED mainVars
  /\ rpc[p] = "write"
  /\ rfile' = WriteAt(rfile, roff[p], rcontent[p][roff[p] + 1])
  /\ roff' = [roff EXCEPT ![p] = @ + 1]
  /\ rpc' = [rpc EXCEPT ![p] = IF roff[p] + 1 = Len(rcontent[p]) THEN "use" ELSE "write"]
  /\ UNCHANGED <<rcontent, rused>>

\* line 94: file.read_bytes() of the cache file as a key source.
RUse(p) ==
  /\ UNCHANGED mainVars
  /\ rpc[p] = "use"
  /\ rused' = [rused EXCEPT ![p] = rfile]
  /\ rpc' = [rpc EXCEPT ![p] = "done"]
  /\ UNCHANGED <<rfile, rcontent, roff>>

RaceInit == MainInit /\ RaceIdle

RaceNext ==
  \E p \in Procs : RExists(p) \/ RGet(p) \/ ROpen(p) \/ RWrite(p) \/ RUse(p)

RaceSpec == RaceInit /\ [][RaceNext]_vars

\* C10: whenever an invocation reads the cache file as a key source, the
\* file holds the complete body of the URL.
C10_CompleteCacheFile ==
  \A p \in Procs : rused[p] # NotYet => rused[p] = do_get(RaceUrl)

\* ------------------------------------------------------------- properties
MainSteps == <<"keys", "config", "hostkey", "exec">>
IsPrefix(s, t) == Len(s) <= Len(t) /\ s = SubSeq(t, 1, Len(s))

\* The run has returned from make_authorized_keys with a path.
KeysReturned == steps # <<>>

\* The bytes of the file a flag names: the local file, or the cache file of
\* the URL or of the GitHub user's URL.
BytesOfFlag(it) ==
  IF it.flag = "file" THEN FileBytes(it.val)
  ELSE IF it.flag = "url" THEN cache[it.val]
  ELSE cache[GITHUB_KEYS_ENDPOINT(it.val)]

\* The path of the file a flag names.
PathOfFlag(it) ==
  IF it.flag = "file" THEN it.val
  ELSE IF it.flag = "url" THEN CachePath(it.val)
  ELSE CachePath(GITHUB_KEYS_ENDPOINT(it.val))

RECURSIVE ConcatBytes(_)
ConcatBytes(cl) ==
  IF cl = <<>> THEN <<>> ELSE BytesOfFlag(Head(cl)) \o ConcatBytes(Tail(cl))

\* The flags grouped by kind: --file, then --url, then --github.
Grouped(cl) ==
  SelectSeq(cl, LAMBDA it : it.flag = "file")
    \o SelectSeq(cl, LAMBDA it : it.flag = "url")
    \o SelectSeq(cl, LAMBDA it : it.flag = "github")

RECURSIVE SplitLines(_, _)
\* The non-empty lines of a text, as sshd reads a configuration file.
SplitLines(text, cur) ==
  LET line == IF cur = <<>> THEN <<>> ELSE <<cur>>
  IN IF text = <<>> THEN line
     ELSE IF Head(text) = NL THEN line \o SplitLines(Tail(text), <<>>)
     ELSE SplitLines(Tail(text), Append(cur, Head(text)))

\* The lines of the configuration that start with the keyword.
Directives(cfg, kw) == SelectSeq(SplitLines(cfg, <<>>), LAMBDA l : l[1] = kw)

\* C1: every URL that has been resolved, once or many times, in one run or
\* in several, has been fetched exactly once, and its cache file holds the
\* fetched body; no URL is ever fetched twice.
C1_OneFetchPerUrl ==
  \A u \in AllUrls :
    /\ gets[u] <= 1
    /\ resolves[u] >= 1 => (gets[u] = 1 /\ cache[u] = do_get(u))

C1_Witness == \E u \in AllUrls : resolves[u] >= 2 /\ gets[u] = 1

\* C2 as stated: with two or more sources the merged file holds the bytes
\* of the sources in the order the flags were given on the command line.
C2_GivenOrder ==
  authorized_keys_path = TmpPath => tmpBytes = ConcatBytes(cmdline)

\* C2 as amended: with two or more sources the merged file holds the bytes
\* of the --file sources in their given order, then those of the --url
\* sources in their given order, then those of the --github sources in
\* their given order, with nothing added, dropped or deduplicated.
C2_GroupedOrder ==
  authorized_keys_path = TmpPath =>
    /\ Len(cmdline) >= 2
    /\ tmpBytes = ConcatBytes(Grouped(cmdline))

C2_Witness ==
  /\ authorized_keys_path = TmpPath
  /\ Grouped(cmdline) # cmdline
  /\ tmpBytes # ConcatBytes(cmdline)

\* C3: every one of the directories <state>/tmpssh and
\* <state>/tmpssh/pubkeys that exists gives no access to group or others.
C3_OwnerOnly ==
  \A d \in {"tmpssh", "pubkeys"} : dirMode[d] # NoDir => dirMode[d] % 64 = 0

\* C4: a run without key sources that is past make_authorized_keys either
\* returned ~/.ssh/authorized_keys, which exists, and created no temporary
\* file, or ended with a usage error (status 2) before any configuration
\* was written, any host key ensured or the server launched.
C4_NoSources ==
  (cmdline = <<>> /\ pc \notin {"idle", "assemble"}) =>
    IF homeBytes # NoFile
    THEN /\ authorized_keys_path = HomeAuthorizedKeys
         /\ tmpBytes = NoFile
         /\ err # "UsageError"
    ELSE /\ pc = "failed"
         /\ err = "UsageError"
         /\ exitCode = 2
         /\ steps = <<>>
         /\ sshd_config = <<>>
         /\ ~configWritten
         /\ host_key = <<>>
         /\ ~launched

C4_Witness ==
  cmdline = <<>> /\ runs >= 1 /\ pc = "failed" /\ err = "UsageError"

\* C5: a run that ends at the launch because no sshd is on the search path
\* ends with a LaunchError, and the server is not started.
C5_LaunchError ==
  (pc = "failed" /\ steps = <<"keys", "config", "hostkey">>) =>
    (err = "LaunchError" /\ ~launched)

\* C6: when the host key file exists, ensure_host_key returns its path,
\* runs no key generation and leaves the key as it is; key generation runs
\* only when the file is absent.
C6_HostKeyIdempotent ==
  [][/\ (pc = "hostkey" /\ hostKey # NoKey) =>
          /\ hostKey' = hostKey
          /\ keygenRuns' = keygenRuns
          /\ host_key' = HostKeyPath
     /\ keygenRuns' # keygenRuns => hostKey = NoKey
     /\ hostKey # NoKey => hostKey' = hostKey]_vars

C6_Witness ==
  runs = 2 /\ hostKey = 1 /\ host_key = HostKeyPath /\ keygenRuns = 1

\* C7: a run with exactly one key source that has returned from
\* make_authorized_keys returned that source's own path (the file given, or
\* the cache file of the URL or of the GitHub user) and created no
\* temporary file.
C7_SingleSource ==
  (Len(cmdline) = 1 /\ KeysReturned) =>
    /\ authorized_keys_path = PathOfFlag(cmdline[1])
    /\ authorized_keys_path = sources[1]
    /\ tmpBytes = NoFile

C7_Witness ==
  /\ Len(cmdline) = 1
  /\ KeysReturned
  /\ cmdline[1].flag = "github"
  /\ authorized_keys_path = CachePath(UrlAlice)

\* C8: the written configuration holds exactly one AllowUsers directive,
\* naming the invoking user alone, exactly one AuthorizedKeysFile directive,
\* naming the resolved path, and PubkeyAuthentication yes,
\* PasswordAuthentication no and PermitRootLogin no.
C8_ConfigDirectives ==
  configWritten =>
    /\ Directives(sshd_config, "AllowUsers") = <<<<"AllowUsers", TAB, get_username>>>>
    /\ Directives(sshd_config, "AuthorizedKeysFile")
         = << <<"AuthorizedKeysFile", TAB>> \o authorized_keys_path >>
    /\ Directives(sshd_config, "PubkeyAuthentication") = <<<<"PubkeyAuthentication", TAB, "yes">>>>
    /\ Directives(sshd_config, "PasswordAuthentication") = <<<<"PasswordAuthentication", TAB, "no">>>>
    /\ Directives(sshd_config, "PermitRootLogin") = <<<<"PermitRootLogin", TAB, "no">>>>

\* C9: the steps of a run happen in the order key assembly, configuration
\* write, host-key ensure, exec; the server is launched only after all of
\* them; a failed run has a non-zero status and no server; a failed fetch
\* leaves no cache file for its URL.
C9_StepOrder ==
  /\ IsPrefix(steps, MainSteps)
  /\ configWritten <=> Len(steps) >= 2
  /\ host_key # <<>> <=> Len(steps) >= 3
  /\ launched <=> steps = MainSteps
  /\ launched => (pc = "execd" /\ err = "" /\ exitCode = 0)
  /\ pc = "failed" => (~launched /\ exitCode # 0 /\ err # "")
  /\ (pc = "failed" /\ err = "FetchError") => cache[urls[i]] = NoFile

C9_Witness ==
  pc = "failed" /\ err = "FetchError" /\ runs = 2 /\ i = 2

====
